---- MODULE Spec2Model ----
(***************************************************************************)
(* State-machine model of AuthSystem (src/auth_system.py): the JSON        *)
(* credential store, the in-memory failed-attempt counters, and the        *)
(* operations register_user, login, unblock_user, user_exists and          *)
(* get_user_count.                                                         *)
(***************************************************************************)
EXTENDS Integers, Sequences, FiniteSets, TLC

(***************************************************************************)
(* Bounds of the model.                                                    *)
(***************************************************************************)
\* The wall clock takes the values 0..MaxClock.
MaxClock == 1
\* successes counts a username's successful registrations up to MaxCounted.
MaxCounted == 2

(***************************************************************************)
(* Program constants.                                                      *)
(***************************************************************************)
\* self.max_attempts = 3
max_attempts == 3
\* len(username) < 3
MinUsernameLen == 3
\* len(password) < 6
MinPasswordLen == 6
\* SECURITY_CONFIG["max_username_length"]
MaxUsernameLen == 30

(***************************************************************************)
(* Inputs.  Python strings are TLA+ strings; LoneSurrogateName stands for   *)
(* the three-character Python string "ab\udc80", whose last character is a  *)
(* lone surrogate and therefore has no UTF-8 encoding.                      *)
(***************************************************************************)
LoneSurrogateName == "ab<U+DC80>"

\* Usernames the callers pass: empty, too short, and two of valid length.
Usernames == {"", "ab", "abc", "alice"}

\* Usernames passed to login, unblock_user and user_exists; before it is
\* registered each of them is also an unknown username.
KnownNames == {"abc", "alice"}

\* Usernames including one that cannot be encoded as UTF-8.
AnyUsernames == Usernames \cup {LoneSurrogateName}

\* A username of 31 characters, one more than max_username_length.
LongName == "abcdefghijklmnopqrstuvwxyz01234"

\* Every username of the model.
AllNames == AnyUsernames \cup {LongName}

\* The processes, each with its own AuthSystem instance on the same file.
Processes == {"P1", "P2"}

\* Passwords the callers pass: empty, length 5, length 6, length 7.
Passwords == {"", "12345", "123456", "secret1"}

\* Outcomes of opening the backing file for writing: the write goes through,
\* or open() raises (for example PermissionError) and the file is untouched.
SaveOutcomes == {"ok", "open_fails"}

\* The same, and the write failing after open() truncated the file (for
\* example OSError: no space left on device).
WriteOutcomes == SaveOutcomes \cup {"write_fails"}

\* Exceptions that reach the caller, recorded as the msg of a call.
Exceptions == {"OSError", "TypeError"}

VARIABLES
    file,             \* the backing file: [kind, users]
    failed_attempts,  \* self.failed_attempts: username -> count
    clock,            \* the wall clock read by datetime.now()
    last,             \* the most recent call and what it returned
    prior,            \* history: how the call before `last` relates to it
    streak,           \* history: wrong-password logins since the entry was absent
    successes,        \* history: register_user calls that returned success, per username
    pc,               \* per process: where its register_user call stands
    call,             \* per process: arguments and local `users` of that call
    returned,         \* per process: what its last register_user call returned
    acked,            \* history: usernames whose registration returned success
    raced             \* history: two register_user calls were in progress at once

\* The state of the processes that share the users file.
procvars == <<pc, call, returned, acked, raced>>

vars == <<file, failed_attempts, clock, last, prior, streak, successes,
          pc, call, returned, acked, raced>>

(***************************************************************************)
(* Python helpers.                                                         *)
(***************************************************************************)
\* len(s) of a Python string.
len(s) == IF s = LoneSurrogateName THEN 3 ELSE Len(s)

\* Whether s.encode('utf-8') succeeds.
utf8_encodable(s) == s # LoneSurrogateName

\* The empty dict.
EmptyDict == [k \in {} |-> k]

\* d.get(k, default)
Get(d, k, default) == IF k \in DOMAIN d THEN d[k] ELSE default

\* d[k] = v
Put(d, k, v) == [x \in DOMAIN d \cup {k} |-> IF x = k THEN v ELSE d[x]]

\* del d[k]
Del(d, k) == [x \in DOMAIN d \ {k} |-> d[x]]

\* hashlib.sha256(password.encode()).hexdigest(), tabulated on Passwords.
hash_password(password) ==
    CASE password = ""        -> "e3b0c44298fc1c149afbf4c8996fb92427ae41e4649b934ca495991b7852b855"
      [] password = "12345"   -> "5994471abb01112afcc18159f6cc74b4f511b99806da59b3caf5a9c173cacfc5"
      [] password = "123456"  -> "8d969eef6ecad3c29a3a629280e686cf0c3f5d5a86aff3ca12020c923adc6c92"
      [] password = "secret1" -> "5b11618c2e44027877d0cd0921ed166b9f176f50587fc91e7534dd2946db77d6"

\* datetime.now().isoformat() at the current clock value.
get_current_timestamp == "2025-01-01T00:00:0" \o ToString(clock)

(***************************************************************************)
(* The backing file.  kind is "absent" (no file), "malformed" (content     *)
(* that is not valid JSON, e.g. an empty or truncated file), "valid" (a     *)
(* JSON object, held in users), "unreadable" (the path exists and open()    *)
(* raises an OSError other than FileNotFoundError, e.g. PermissionError or  *)
(* IsADirectoryError) or "nonobject" (the valid JSON document null).        *)
(***************************************************************************)
AbsentFile == [kind |-> "absent", users |-> EmptyDict]
MalformedFile == [kind |-> "malformed", users |-> EmptyDict]
ValidFile(users) == [kind |-> "valid", users |-> users]
UnreadableFile == [kind |-> "unreadable", users |-> EmptyDict]
NonObjectFile == [kind |-> "nonobject", users |-> EmptyDict]

\* _load_users: the mapping in the file, {} when absent or malformed.
load_users(f) == IF f.kind = "valid" THEN f.users ELSE EmptyDict

\* Faulty variant of load_error: every exception is caught.
load_error_caught(f) == ""

\* Faulty variant of load_error: json.JSONDecodeError is not caught.
load_error_malformed(f) ==
    IF f.kind = "unreadable" THEN "OSError"
    ELSE IF f.kind = "nonobject" THEN "TypeError"
    ELSE IF f.kind = "malformed" THEN "JSONDecodeError"
    ELSE ""

\* The exception that escapes when f is loaded and the result used, "" when
\* none does: _load_users catches FileNotFoundError and JSONDecodeError
\* only, and json.load of null returns None, on which `in` and len() raise.
load_error(f) ==
    IF f.kind = "unreadable" THEN "OSError"
    ELSE IF f.kind = "nonobject" THEN "TypeError"
    ELSE ""

\* Faulty variant of save_users: a failed open() is tried once more and succeeds.
save_users_retry(f, users, io) ==
    IF io = "write_fails" \/ \E k \in DOMAIN users : ~utf8_encodable(k)
    THEN [ok |-> FALSE, file |-> MalformedFile]
    ELSE [ok |-> TRUE, file |-> ValidFile(users)]

\* _save_users: [ok, file] after open(users_file, 'w') and json.dump.
\* open() truncates the file; json.dump(ensure_ascii=False) into a UTF-8
\* text file raises UnicodeEncodeError at a key that cannot be encoded,
\* leaving truncated JSON behind.
save_users(f, users, io) ==
    IF io = "open_fails"
    THEN [ok |-> FALSE, file |-> f]
    ELSE IF io = "write_fails" THEN [ok |-> FALSE, file |-> MalformedFile]
    ELSE IF \A k \in DOMAIN users : utf8_encodable(k)
         THEN [ok |-> TRUE, file |-> ValidFile(users)]
         ELSE [ok |-> FALSE, file |-> MalformedFile]

(***************************************************************************)
(* Failed-attempt counters.                                                *)
(***************************************************************************)
\* Faulty variant of is_user_blocked: strict comparison.
is_user_blocked_strict(fa, username) == Get(fa, username, 0) > max_attempts

is_user_blocked(fa, username) == Get(fa, username, 0) >= max_attempts

\* Faulty variant of increment_failed_attempts: a missing entry is not created.
increment_failed_attempts_existing(fa, username) ==
    IF username \in DOMAIN fa THEN Put(fa, username, fa[username] + 1) ELSE fa

\* Faulty variant of increment_failed_attempts: the count goes up by two.
increment_failed_attempts_twice(fa, username) ==
    Put(fa, username, Get(fa, username, 0) + 2)

\* Faulty variant of increment_failed_attempts: the count is set to 1, not incremented.
increment_failed_attempts_set(fa, username) == Put(fa, username, 1)

increment_failed_attempts(fa, username) ==
    Put(fa, username, Get(fa, username, 0) + 1)

\* Faulty variant of reset_failed_attempts: the entry is set to 0, not deleted.
reset_failed_attempts_zero(fa, username) ==
    IF username \in DOMAIN fa THEN Put(fa, username, 0) ELSE fa

\* Faulty variant of reset_failed_attempts: the entry is kept.
reset_failed_attempts_keep(fa, username) == fa

reset_failed_attempts(fa, username) ==
    IF username \in DOMAIN fa THEN Del(fa, username) ELSE fa

(***************************************************************************)
(* Messages.                                                               *)
(***************************************************************************)
MsgEmpty == "El nombre de usuario y la contraseña no pueden estar vacíos"
MsgShortUsername == "El nombre de usuario debe tener al menos 3 caracteres"
MsgShortPassword == "La contraseña debe tener al menos 6 caracteres"
MsgExists == "El usuario ya existe"
MsgRegistered == "Usuario registrado exitosamente"
MsgSaveError == "Error al guardar el usuario"
MsgBlocked ==
    "Usuario bloqueado. Has superado el máximo de " \o ToString(max_attempts) \o " intentos"
MsgNotFound == "Usuario no encontrado"
MsgLoginOk == "Login exitoso"
MsgWrong(remaining) ==
    "Contraseña incorrecta. Te quedan " \o ToString(remaining) \o " intentos"

ValidationMsgs == {MsgEmpty, MsgShortUsername, MsgShortPassword}

(***************************************************************************)
(* History bookkeeping shared by the operations.                           *)
(***************************************************************************)
\* The record kept of a call: its name, arguments, result (ok, msg, count)
\* and pre, the value of failed_attempts.get(username, 0) when it was made.
Call(op, username, password, ok, msg, count, pre) ==
    [op |-> op, username |-> username, password |-> password,
     ok |-> ok, msg |-> msg, count |-> count, pre |-> pre]

\* How the call recorded in `last` relates to a call on (username, password)
\* made right after it.
Prior(username, password) ==
    IF last.op = "file_changes" THEN last.msg
    ELSE IF last.username # username THEN "none"
    ELSE IF last.op = "unblock_user" /\ last.ok /\ last.pre >= max_attempts
         THEN "unblocked"
    ELSE IF last.op = "login" /\ last.ok /\ last.pre >= 1
         THEN "login_cleared"
    ELSE IF last.op = "register_user" /\ last.ok /\ last.password = password
         THEN "registered"
    ELSE IF last.op = "init" /\ last.pre >= max_attempts
         THEN "restarted_blocked"
    ELSE "none"

\* streak[n] >= 0 once n has been registered with no failed_attempts entry:
\* the number (capped at max_attempts) of wrong-password login calls on n
\* since the last state in which n was registered without an entry; -1
\* before that and while n is not in the store.  wrong is the username of a wrong-password login call made
\* in this step, or a value outside the usernames.
NoUser == "<none>"

StreakAfter(f, fa, wrong) ==
    [n \in KnownNames |->
        IF n \notin DOMAIN load_users(f) THEN -1
        ELSE IF n \notin DOMAIN fa THEN 0
        ELSE IF n = wrong /\ streak[n] >= 0
             THEN IF streak[n] < max_attempts THEN streak[n] + 1 ELSE streak[n]
        ELSE streak[n]]

\* No register_user call in progress, and none returned yet.
NoCall == [username |-> "", password |-> "", users |-> EmptyDict]

NoReturn == [ok |-> FALSE, msg |-> "", username |-> ""]

(***************************************************************************)
(* Init: a fresh AuthSystem over a file that is absent, empty (the tests'  *)
(* temporary file, which is not valid JSON) or holds {}.                   *)
(***************************************************************************)
Init ==
    /\ file \in {AbsentFile, MalformedFile, ValidFile(EmptyDict)}
    /\ failed_attempts = EmptyDict
    /\ clock = 0
    /\ last = Call("init", "", "", TRUE, "", 0, 0)
    /\ prior = "none"
    /\ streak = [n \in KnownNames |-> -1]
    /\ successes = [n \in AllNames |-> 0]
    /\ pc = [p \in Processes |-> "idle"]
    /\ call = [p \in Processes |-> NoCall]
    /\ returned = [p \in Processes |-> NoReturn]
    /\ acked = {}
    /\ raced = FALSE

(***************************************************************************)
(* register_user                                                           *)
(***************************************************************************)
\* Faulty variant of is_duplicate: a username counts as taken only with the same password.
is_duplicate_same_password(users, username, password) ==
    username \in DOMAIN users /\ users[username].password = hash_password(password)

\* Faulty variant of is_duplicate: no check at all.
is_duplicate_never(users, username, password) == FALSE

\* if username in users
is_duplicate(users, username, password) == username \in DOMAIN users

\* Faulty variant of new_record: the password is stored as given.
new_record_plaintext(password) ==
    [password |-> password, created_at |-> get_current_timestamp]

\* The record register_user stores: the digest and the creation time.
new_record(password) ==
    [password |-> hash_password(password), created_at |-> get_current_timestamp]

\* Faulty variant of updated_users: only the new record is kept.
updated_users_only_new(users, username, password) ==
    Put(EmptyDict, username, new_record(password))

\* users[username] = {...}: the loaded mapping with the new record added.
updated_users(users, username, password) ==
    Put(users, username, new_record(password))

\* What register_user returns and leaves in the file: [ok, msg, file]; msg
\* is the exception's name when the call raises.
register_result(f, username, password, io) ==
    IF username = "" \/ password = ""
    THEN [ok |-> FALSE, msg |-> MsgEmpty, file |-> f]
    ELSE IF len(username) < MinUsernameLen
    THEN [ok |-> FALSE, msg |-> MsgShortUsername, file |-> f]
    ELSE IF len(password) < MinPasswordLen
    THEN [ok |-> FALSE, msg |-> MsgShortPassword, file |-> f]
    ELSE IF load_error(f) # ""
    THEN [ok |-> FALSE, msg |-> load_error(f), file |-> f]
    ELSE LET users == load_users(f) IN
         IF is_duplicate(users, username, password)
         THEN [ok |-> FALSE, msg |-> MsgExists, file |-> f]
         ELSE LET saved == save_users(f, updated_users(users, username, password), io)
              IN  IF saved.ok
                  THEN [ok |-> TRUE, msg |-> MsgRegistered, file |-> saved.file]
                  ELSE [ok |-> FALSE, msg |-> MsgSaveError, file |-> saved.file]

\* Faulty variant of register_user: a successful registration deletes the
\* failed_attempts entry of the username.
register_user_clears(username, password, io) ==
    LET r == register_result(file, username, password, io) IN
    /\ file' = r.file
    /\ failed_attempts' = IF r.ok THEN reset_failed_attempts(failed_attempts, username)
                          ELSE failed_attempts
    /\ last' = Call("register_user", username, password, r.ok, r.msg, 0,
                    Get(failed_attempts, username, 0))
    /\ prior' = Prior(username, password)
    /\ streak' = StreakAfter(r.file, failed_attempts', NoUser)
    /\ successes' = IF r.ok /\ successes[username] < MaxCounted
                    THEN [successes EXCEPT ![username] = @ + 1]
                    ELSE successes
    /\ UNCHANGED clock
    /\ UNCHANGED procvars

register_user(username, password, io) ==
    LET r == register_result(file, username, password, io) IN
    /\ file' = r.file
    /\ last' = Call("register_user", username, password, r.ok, r.msg, 0,
                    Get(failed_attempts, username, 0))
    /\ prior' = Prior(username, password)
    /\ streak' = StreakAfter(r.file, failed_attempts, NoUser)
    /\ successes' = IF r.ok /\ successes[username] < MaxCounted
                    THEN [successes EXCEPT ![username] = @ + 1]
                    ELSE successes
    /\ UNCHANGED <<failed_attempts, clock>>
    /\ UNCHANGED procvars

(***************************************************************************)
(* login                                                                   *)
(***************************************************************************)
\* Faulty variant of password_matches: the stored digest is compared with the plaintext.
password_matches_plaintext(record, password) == record.password = password

\* users[username]["password"] == hashed_password
password_matches(record, password) == record.password = hash_password(password)

\* Faulty variant of remaining_attempts: one attempt too many is reported.
remaining_attempts_stale(fa, username) == max_attempts - Get(fa, username, 0) + 1

\* remaining = self.max_attempts - self.failed_attempts.get(username, 0)
remaining_attempts(fa, username) == max_attempts - Get(fa, username, 0)

\* What login returns and leaves in failed_attempts: [ok, msg, fa]; msg is
\* the exception's name when the call raises.
login_result(f, fa, username, password) ==
    IF is_user_blocked(fa, username)
    THEN [ok |-> FALSE, msg |-> MsgBlocked, fa |-> fa]
    ELSE IF load_error(f) # ""
    THEN [ok |-> FALSE, msg |-> load_error(f), fa |-> fa]
    ELSE LET users == load_users(f) IN
         IF username \notin DOMAIN users
         THEN [ok |-> FALSE, msg |-> MsgNotFound,
               fa |-> increment_failed_attempts(fa, username)]
         ELSE IF password_matches(users[username], password)
         THEN [ok |-> TRUE, msg |-> MsgLoginOk,
               fa |-> reset_failed_attempts(fa, username)]
         ELSE LET fa2 == increment_failed_attempts(fa, username)
                  remaining == remaining_attempts(fa2, username)
              IN  IF remaining <= 0
                  THEN [ok |-> FALSE, msg |-> MsgBlocked, fa |-> fa2]
                  ELSE [ok |-> FALSE, msg |-> MsgWrong(remaining), fa |-> fa2]

\* Whether password is not the one username is registered with in f.
WrongPassword(f, username, password) ==
    /\ username \in DOMAIN load_users(f)
    /\ load_users(f)[username].password # hash_password(password)

login(username, password) ==
    LET r == login_result(file, failed_attempts, username, password) IN
    /\ failed_attempts' = r.fa
    /\ last' = Call("login", username, password, r.ok, r.msg, 0,
                    Get(failed_attempts, username, 0))
    /\ prior' = Prior(username, password)
    /\ streak' = StreakAfter(file, r.fa,
                     IF WrongPassword(file, username, password)
                     THEN username ELSE NoUser)
    /\ UNCHANGED <<file, clock, successes>>
    /\ UNCHANGED procvars

(***************************************************************************)
(* unblock_user, user_exists, get_user_count                               *)
(***************************************************************************)
\* Faulty variant of unblock_user: reports True without deleting the entry.
unblock_user_keep(username) ==
    LET found == username \in DOMAIN failed_attempts IN
    /\ failed_attempts' = failed_attempts
    /\ last' = Call("unblock_user", username, "", found, "", 0,
                    Get(failed_attempts, username, 0))
    /\ prior' = Prior(username, "")
    /\ streak' = StreakAfter(file, failed_attempts', NoUser)
    /\ UNCHANGED <<file, clock, successes>>
    /\ UNCHANGED procvars

\* Faulty variant of unblock_user: only a blocked username is cleared.
unblock_user_if_blocked(username) ==
    LET found == is_user_blocked(failed_attempts, username) IN
    /\ failed_attempts' = IF found THEN Del(failed_attempts, username)
                          ELSE failed_attempts
    /\ last' = Call("unblock_user", username, "", found, "", 0,
                    Get(failed_attempts, username, 0))
    /\ prior' = Prior(username, "")
    /\ streak' = StreakAfter(file, failed_attempts', NoUser)
    /\ UNCHANGED <<file, clock, successes>>
    /\ UNCHANGED procvars

unblock_user(username) ==
    LET found == username \in DOMAIN failed_attempts IN
    /\ failed_attempts' = IF found THEN Del(failed_attempts, username)
                          ELSE failed_attempts
    /\ last' = Call("unblock_user", username, "", found, "", 0,
                    Get(failed_attempts, username, 0))
    /\ prior' = Prior(username, "")
    /\ streak' = StreakAfter(file, failed_attempts', NoUser)
    /\ UNCHANGED <<file, clock, successes>>
    /\ UNCHANGED procvars

\* Faulty variant of exists_result: the failed-attempt entries are looked up.
exists_result_attempts(f, fa, username) == username \in DOMAIN fa

\* return username in users
exists_result(f, fa, username) == username \in DOMAIN load_users(f)

user_exists(username) ==
    /\ last' = Call("user_exists", username, "",
                    load_error(file) = "" /\ exists_result(file, failed_attempts, username),
                    load_error(file), 0,
                    Get(failed_attempts, username, 0))
    /\ prior' = Prior(username, "")
    /\ UNCHANGED <<file, failed_attempts, clock, streak, successes>>
    /\ UNCHANGED procvars

get_user_count ==
    /\ last' = Call("get_user_count", "", "", load_error(file) = "", load_error(file),
                    Cardinality(DOMAIN load_users(file)), 0)
    /\ prior' = "none"
    /\ UNCHANGED <<file, failed_attempts, clock, streak, successes>>
    /\ UNCHANGED procvars

\* Faulty variant of Restart: the failed-attempt counts outlive the instance.
Restart_keep(username) ==
    /\ failed_attempts' = failed_attempts
    /\ last' = Call("init", username, "", TRUE, "", 0,
                    Get(failed_attempts, username, 0))
    /\ prior' = "none"
    /\ streak' = StreakAfter(file, failed_attempts', NoUser)
    /\ UNCHANGED <<file, clock, successes>>
    /\ UNCHANGED procvars

\* The process ends and AuthSystem.__init__ runs again on the same
\* users_file: failed_attempts = {} and the file is not touched.  The
\* history keeps, for one username, the count it had in the old instance.
Restart(username) ==
    /\ failed_attempts' = EmptyDict
    /\ last' = Call("init", username, "", TRUE, "", 0,
                    Get(failed_attempts, username, 0))
    /\ prior' = "none"
    /\ streak' = StreakAfter(file, failed_attempts', NoUser)
    /\ UNCHANGED <<file, clock, successes>>
    /\ UNCHANGED procvars

(***************************************************************************)
(* register_user run by several processes on one file.  A call is three     *)
(* steps: validation, load and duplicate check; open(users_file, 'w'); and   *)
(* json.dump with the return.  Steps of different processes interleave.     *)
(***************************************************************************)
\* Lines 80-101: the call returns at once when it is rejected, and otherwise
\* holds in `users` the mapping it loaded with the new record added.
register_load(p, username, password) ==
    LET r == register_result(file, username, password, "ok")
        rejected == r.msg # MsgRegistered
    IN  /\ pc[p] = "idle"
        /\ pc' = [pc EXCEPT ![p] = IF rejected THEN "idle" ELSE "loaded"]
        /\ call' = [call EXCEPT ![p] =
                       IF rejected THEN NoCall
                       ELSE [username |-> username, password |-> password,
                             users |-> updated_users(load_users(file),
                                                     username, password)]]
        /\ returned' = IF rejected
                       THEN [returned EXCEPT ![p] =
                               [ok |-> FALSE, msg |-> r.msg, username |-> username]]
                       ELSE returned
        /\ raced' = (raced \/ (~rejected /\ \E q \in Processes \ {p} : pc[q] # "idle"))
        /\ UNCHANGED <<file, failed_attempts, clock, last, prior, streak,
                       successes, acked>>

\* Faulty variant of register_open: the file is opened without truncating it.
register_open_keep(p) ==
    /\ pc[p] = "loaded"
    /\ pc' = [pc EXCEPT ![p] = "opened"]
    /\ UNCHANGED <<file, failed_attempts, clock, last, prior, streak,
                   successes, call, returned, acked, raced>>

\* Line 60: open(users_file, 'w') leaves the file empty, which is not JSON.
register_open(p) ==
    /\ pc[p] = "loaded"
    /\ pc' = [pc EXCEPT ![p] = "opened"]
    /\ file' = MalformedFile
    /\ streak' = StreakAfter(file', failed_attempts, NoUser)
    /\ UNCHANGED <<failed_attempts, clock, last, prior, successes,
                   call, returned, acked, raced>>

\* Lines 61-62 and 104-105: the mapping is written from offset 0 and the
\* call returns success.  Written into the empty file it is the whole
\* content; written over what another process wrote since this one opened
\* the file, it replaces that content or, when shorter, leaves its tail
\* behind, which is not JSON.
register_dump(p) ==
    /\ pc[p] = "opened"
    /\ file' \in IF file.kind = "valid"
                 THEN {ValidFile(call[p].users), MalformedFile}
                 ELSE {ValidFile(call[p].users)}
    /\ pc' = [pc EXCEPT ![p] = "idle"]
    /\ call' = [call EXCEPT ![p] = NoCall]
    /\ returned' = [returned EXCEPT ![p] =
                      [ok |-> TRUE, msg |-> MsgRegistered,
                       username |-> call[p].username]]
    /\ acked' = acked \cup {call[p].username}
    /\ streak' = StreakAfter(file', failed_attempts, NoUser)
    /\ UNCHANGED <<failed_attempts, clock, last, prior, successes, raced>>

\* Time passes between calls.
Tick ==
    /\ clock < MaxClock
    /\ clock' = clock + 1
    /\ UNCHANGED <<file, failed_attempts, last, prior, streak, successes>>
    /\ UNCHANGED procvars

(***************************************************************************)
(* Specifications.                                                         *)
(***************************************************************************)
RegisterStep(names, outcomes) ==
    \E username \in names, password \in Passwords, io \in outcomes :
        register_user(username, password, io)

LoginStep == \E username \in KnownNames, password \in Passwords : login(username, password)

UnblockStep == \E username \in KnownNames : unblock_user(username)

ExistsStep == \E username \in KnownNames : user_exists(username)

CountStep == get_user_count

\* One AuthSystem instance, sequential calls, every username encodable.
Next ==
    \/ RegisterStep(Usernames, SaveOutcomes)
    \/ LoginStep
    \/ UnblockStep
    \/ ExistsStep
    \/ CountStep
    \/ Tick

Spec == Init /\ [][Next]_vars

\* One AuthSystem instance over a file that can always be written, with
\* register_user also called on a username that has no UTF-8 encoding.
NextAnyName ==
    \/ RegisterStep(AnyUsernames, {"ok"})
    \/ LoginStep
    \/ UnblockStep
    \/ Tick

SpecAnyName == Init /\ [][NextAnyName]_vars

\* One AuthSystem instance over a file that can always be written, with
\* register_user called on a too short username and on one of 31 characters.
NextLongName ==
    \/ RegisterStep({"ab", LongName}, {"ok"})
    \/ LoginStep
    \/ UnblockStep

SpecLongName == Init /\ [][NextLongName]_vars

\* One AuthSystem instance over a file whose writes can fail, at open() or
\* in json.dump after open() has truncated it.
NextWriteFails ==
    \/ RegisterStep(KnownNames, WriteOutcomes)
    \/ LoginStep

SpecWriteFails == Init /\ [][NextWriteFails]_vars

LoadStep ==
    \E p \in Processes, username \in KnownNames, password \in {"12345", "123456"} :
        register_load(p, username, password)

OpenStep == \E p \in Processes : register_open(p)

DumpStep == \E p \in Processes : register_dump(p)

\* Two processes calling register_user on the same file, with no lock.
NextProcesses ==
    \/ LoadStep
    \/ OpenStep
    \/ DumpStep

SpecProcesses == Init /\ [][NextProcesses]_vars

RestartStep == \E username \in KnownNames : Restart(username)

\* Successive AuthSystem instances over one users file that can always be
\* written.
NextRestart ==
    \/ RegisterStep(KnownNames, {"ok"})
    \/ LoginStep
    \/ RestartStep

SpecRestart == Init /\ [][NextRestart]_vars

\* The environment leaves the users file in another state between two
\* calls: removed, not valid JSON, unreadable, or holding the JSON value null.
FileChanges ==
    /\ file' \in {AbsentFile, MalformedFile, UnreadableFile, NonObjectFile} \ {file}
    /\ last' = Call("file_changes", "", "", TRUE, file'.kind, 0, 0)
    /\ prior' = "none"
    /\ streak' = StreakAfter(file', failed_attempts, NoUser)
    /\ UNCHANGED <<failed_attempts, clock, successes>>
    /\ UNCHANGED procvars

\* One AuthSystem instance over a file whose state the environment changes.
NextFileStates ==
    \/ RegisterStep(KnownNames, {"ok"})
    \/ LoginStep
    \/ ExistsStep
    \/ CountStep
    \/ FileChanges

SpecFileStates == Init /\ [][NextFileStates]_vars

(***************************************************************************)
(* Shorthands used by the properties.                                      *)
(***************************************************************************)
\* failed_attempts.get(username, 0) in the current state.
Count(username) == Get(failed_attempts, username, 0)

\* The record stored for username in the current file.
Stored(username) == load_users(file)[username]

Registered(username) == username \in DOMAIN load_users(file)

\* This step is a call of login, on (last'.username, last'.password).
LoginCalled == last'.op = "login" /\ login(last'.username, last'.password)

\* This step is a call of unblock_user, on last'.username.
UnblockCalled == last'.op = "unblock_user" /\ unblock_user(last'.username)

\* This step is a call of user_exists, on last'.username.
ExistsCalled == last'.op = "user_exists" /\ user_exists(last'.username)

\* This step is a call of get_user_count.
CountCalled == last'.op = "get_user_count" /\ get_user_count

\* The sum of f over the set S.
RECURSIVE SumOver(_, _)
SumOver(f, S) ==
    IF S = {} THEN 0
    ELSE LET x == CHOOSE y \in S : TRUE IN f[x] + SumOver(f, S \ {x})

\* This step is the construction of a new instance, observed at last'.username.
RestartCalled == last'.op = "init" /\ Restart(last'.username)

\* This step is a call of register_user, on (last'.username, last'.password).
RegisterCalled ==
    /\ last'.op = "register_user"
    /\ \E io \in SaveOutcomes : register_user(last'.username, last'.password, io)

(***************************************************************************)
(* C1: a login on a username whose failure count has reached max_attempts   *)
(* returns (False, blocked message) for every password, the correct one     *)
(* included, and the username stays at or above the threshold through every *)
(* step that is not unblock_user on it.                                     *)
(***************************************************************************)
C1_BlockedLoginRefused ==
    [][/\ LoginCalled =>
            LET u == last'.username IN
            Count(u) >= 3 => /\ last'.ok = FALSE
                             /\ last'.msg = MsgBlocked
                             /\ failed_attempts' = failed_attempts
       /\ \A u \in KnownNames :
            (Count(u) >= 3 /\ ~unblock_user(u)) => Get(failed_attempts', u, 0) >= 3]_vars

\* A blocked, registered user has just been refused with the correct password.
C1_Witness ==
    /\ last.op = "login"
    /\ Registered(last.username)
    /\ Stored(last.username).password = hash_password(last.password)
    /\ last.pre >= 3
    /\ ~last.ok
    /\ last.msg = MsgBlocked

(***************************************************************************)
(* C2: for a registered user whose entry was absent, the user is blocked    *)
(* exactly when max_attempts (3) wrong-password logins have been made on it *)
(* since, with no successful login or unblock in between.                   *)
(***************************************************************************)
C2_ThreeWrongLoginsBlock ==
    \A u \in KnownNames :
        streak[u] >= 0 => (is_user_blocked(failed_attempts, u) <=> streak[u] >= 3)

\* The third consecutive wrong-password login has just blocked the user.
C2_Witness ==
    /\ last.op = "login"
    /\ last.username \in KnownNames
    /\ streak[last.username] = 3
    /\ last.pre = 2
    /\ is_user_blocked(failed_attempts, last.username)

(***************************************************************************)
(* C3: login succeeds if and only if, when it is called, the username is    *)
(* not blocked, is a key of the loaded store, and its stored digest equals  *)
(* the digest of the password given.                                        *)
(***************************************************************************)
C3_LoginSucceedsIff ==
    [][LoginCalled =>
          LET u == last'.username
              p == last'.password
          IN  last'.ok <=> /\ Count(u) < 3
                           /\ Registered(u)
                           /\ Stored(u).password = hash_password(p)]_vars

\* A login has just succeeded.
C3_Witness ==
    /\ last.op = "login"
    /\ last.ok
    /\ last.msg = MsgLoginOk
    /\ Registered(last.username)

(***************************************************************************)
(* C4: a successful login removes the username's entry, and a wrong-password*)
(* login made right after a successful login leaves the count at 1, with    *)
(* max_attempts - 1 attempts reported remaining.                            *)
(***************************************************************************)
C4_SuccessClearsCount ==
    [][LoginCalled =>
          LET u == last'.username
              p == last'.password
          IN  /\ last'.ok => u \notin DOMAIN failed_attempts'
              /\ ( /\ last.op = "login" /\ last.username = u /\ last.ok
                   /\ WrongPassword(file, u, p) )
                 => /\ Get(failed_attempts', u, 0) = 1
                    /\ last'.msg = MsgWrong(2)]_vars

\* Failures, then a successful login that cleared them, then one wrong password.
C4_Witness ==
    /\ prior = "login_cleared"
    /\ last.op = "login"
    /\ ~last.ok
    /\ last.msg = MsgWrong(2)
    /\ Count(last.username) = 1

(***************************************************************************)
(* C5: a wrong-password login on a registered, not-blocked user increments  *)
(* the count and reports max_attempts - (new count) attempts remaining when *)
(* that is positive, and "blocked" when the count reached max_attempts; the *)
(* number reported is always in 1..max_attempts-1.                          *)
(***************************************************************************)
C5_RemainingAttempts ==
    [][LoginCalled =>
          LET u == last'.username
              p == last'.password
          IN  /\ (WrongPassword(file, u, p) /\ Count(u) < 3) =>
                    /\ Get(failed_attempts', u, 0) = Count(u) + 1
                    /\ ~last'.ok
                    /\ last'.msg = IF Count(u) + 1 < 3
                                   THEN MsgWrong(3 - (Count(u) + 1))
                                   ELSE MsgBlocked
              /\ \A n \in -1..4 : last'.msg = MsgWrong(n) => n \in 1..2]_vars

\* The second wrong password in a row reports one attempt remaining.
C5_Witness ==
    /\ last.op = "login"
    /\ last.pre = 1
    /\ last.msg = MsgWrong(1)
    /\ Count(last.username) = 2

(***************************************************************************)
(* C6: when unblock_user has just been called on a registered, blocked      *)
(* user, a login with the correct password made right after it succeeds and *)
(* leaves the user without a failure-count entry.                           *)
(***************************************************************************)
C6_UnblockThenLogin ==
    [][LoginCalled =>
          LET u == last'.username
              p == last'.password
          IN  ( /\ last.op = "unblock_user" /\ last.username = u /\ last.pre >= 3
                /\ Registered(u)
                /\ Stored(u).password = hash_password(p) )
              => /\ last'.ok
                 /\ last'.msg = MsgLoginOk
                 /\ u \notin DOMAIN failed_attempts']_vars

\* A blocked user was unblocked and then logged in.
C6_Witness ==
    /\ prior = "unblocked"
    /\ last.op = "login"
    /\ last.ok
    /\ last.username \notin DOMAIN failed_attempts

(***************************************************************************)
(* C7: register_user fails with a validation message, without writing the   *)
(* store, whenever the username or password is empty, the username is       *)
(* shorter than 3 or the password shorter than 6; and on an empty store     *)
(* with a file that can be written it succeeds for every username of length *)
(* at least 3 and password of length at least 6.                            *)
(***************************************************************************)
C7_ValidationDecides ==
    [][RegisterCalled =>
          LET u == last'.username
              p == last'.password
          IN  /\ (u = "" \/ p = "" \/ len(u) < 3 \/ len(p) < 6) =>
                    /\ ~last'.ok
                    /\ last'.msg \in ValidationMsgs
                    /\ file' = file
              /\ ( /\ len(u) >= 3 /\ len(p) >= 6
                   /\ load_users(file) = EmptyDict
                   /\ register_user(u, p, "ok") )
                 => last'.ok]_vars

C9_OneRegistrationPerName ==
    [][/\ \A n \in Usernames : successes'[n] <= 1
       /\ \A n \in DOMAIN load_users(file) :
             /\ n \in DOMAIN load_users(file')
             /\ load_users(file')[n] = load_users(file)[n]]_vars

\* Both usernames are registered, each once, and a further registration of
\* one of them with its own password has just been refused.
C9_Witness ==
    /\ \A n \in KnownNames : Registered(n) /\ successes[n] = 1
    /\ last.op = "register_user"
    /\ last.username \in KnownNames
    /\ last.pre = 0
    /\ ~last.ok
    /\ Stored(last.username).password = hash_password(last.password)

(***************************************************************************)
(* C10: right after register_user(u, p) returns success, the file loads to  *)
(* a mapping holding u with "password" equal to the digest of p (never p    *)
(* itself) and a "created_at" field; and a login(u, p) made next on a       *)
(* non-blocked u succeeds.                                                  *)
(***************************************************************************)
C10_RegisterRoundTrip ==
    [][/\ (RegisterCalled /\ last'.ok) =>
             LET u == last'.username
                 p == last'.password
             IN  /\ file'.kind = "valid"
                 /\ u \in DOMAIN load_users(file')
                 /\ DOMAIN load_users(file')[u] = {"password", "created_at"}
                 /\ load_users(file')[u].password = hash_password(p)
                 /\ load_users(file')[u].password # p
                 /\ Len(load_users(file')[u].password) = 64
                 /\ load_users(file')[u].created_at = get_current_timestamp
       /\ ( /\ LoginCalled
            /\ last.op = "register_user" /\ last.ok
            /\ last.username = last'.username /\ last.password = last'.password
            /\ Count(last.username) < 3 )
          => last'.ok /\ last'.msg = MsgLoginOk]_vars

\* A user was registered and then logged in with the same password.
C10_Witness ==
    /\ prior = "registered"
    /\ last.op = "login"
    /\ last.ok
    /\ Registered(last.username)
    /\ Stored(last.username).password = hash_password(last.password)

(***************************************************************************)
(* C11: starting from an empty store, get_user_count returns the number of  *)
(* register_user calls that returned success, and user_exists(u) returns    *)
(* True exactly for the usernames whose registration returned success.      *)
(***************************************************************************)
C11_CountAndExistsMatchRegistrations ==
    [][/\ CountCalled => last'.count = SumOver(successes, AllNames)
       /\ ExistsCalled => (last'.ok <=> successes[last'.username] >= 1)]_vars

\* Two registrations succeeded and get_user_count has just returned 2.
C11_Witness ==
    /\ last.op = "get_user_count"
    /\ last.count = 2
    /\ SumOver(successes, AllNames) = 2

(***************************************************************************)
(* C12: every username in the store has between 3 and 30 characters, so a   *)
(* register_user with a username longer than 30 characters does not store   *)
(* it.                                                                      *)
(***************************************************************************)
C12_StoredUsernameLength ==
    \A n \in DOMAIN load_users(file) : len(n) >= 3 /\ len(n) <= MaxUsernameLen

(***************************************************************************)
(* C13: once register_user has succeeded for a username, the username stays *)
(* in the store with the same digest and the same creation time through     *)
(* every later call: register_user on any username, login, user_exists,     *)
(* get_user_count and unblock_user.                                         *)
(***************************************************************************)
C13_RecordsNeverChange ==
    [][\A n \in AllNames :
          successes[n] >= 1 =>
             /\ Registered(n)
             /\ n \in DOMAIN load_users(file')
             /\ load_users(file')[n].password = Stored(n).password
             /\ load_users(file')[n].created_at = Stored(n).created_at]_vars

\* A second user has just been registered, later than the first, whose
\* record is still there.
C13_Witness ==
    /\ last.op = "register_user"
    /\ last.ok
    /\ \A n \in KnownNames : Registered(n) /\ successes[n] = 1
    /\ Stored("abc").created_at # Stored("alice").created_at

C15_UnblockTrueOnlyIfBlocked ==
    [][UnblockCalled => (last'.ok => Count(last'.username) >= 3)]_vars

(***************************************************************************)
(* C16: a login on a username that is not in the store and not blocked      *)
(* returns (False, "Usuario no encontrado") and raises its failure count by *)
(* one, the attempt that brings the count to max_attempts included; once    *)
(* the count is max_attempts a login on the unknown username reports        *)
(* "blocked" instead and leaves the counts alone.                           *)
(***************************************************************************)
C16_UnknownUserCounted ==
    [][LoginCalled =>
          LET u == last'.username IN
          ~Registered(u) =>
             IF Count(u) < 3
             THEN /\ ~last'.ok
                  /\ last'.msg = MsgNotFound
                  /\ Get(failed_attempts', u, 0) = Count(u) + 1
             ELSE /\ ~last'.ok
                  /\ last'.msg = MsgBlocked
                  /\ failed_attempts' = failed_attempts]_vars

\* An unknown username, blocked by three not-found attempts, has just been
\* refused as blocked.
C16_Witness ==
    /\ last.op = "login"
    /\ ~Registered(last.username)
    /\ last.pre = 3
    /\ Count(last.username) = 3
    /\ last.msg = MsgBlocked

(***************************************************************************)
(* C17: loading the store never raises to the caller: whatever the state of *)
(* the backing file (absent, a JSON object, malformed, unreadable, or valid *)
(* JSON that is not an object), register_user, login, user_exists and       *)
(* get_user_count return their normal results, and an absent or malformed   *)
(* file loads as the empty mapping.                                         *)
(***************************************************************************)
C17_NoCallRaises ==
    /\ last.msg \notin Exceptions
    /\ file.kind \in {"absent", "malformed"} => load_users(file) = EmptyDict

(***************************************************************************)
(* C18: when the write of the file fails in register_user(u, p) on valid,   *)
(* non-duplicate inputs, the call returns (False, 'Error al guardar el      *)
(* usuario') without raising and without a second attempt, so u is not in   *)
(* the store afterwards; and whenever such a call returns True the record   *)
(* of u is in the file.                                                     *)
(***************************************************************************)
C18_FailedWriteReported ==
    [][\A io \in WriteOutcomes :
          (last'.op = "register_user"
             /\ register_user(last'.username, last'.password, io)) =>
          LET u == last'.username
              p == last'.password
          IN  (/\ len(u) >= MinUsernameLen
               /\ len(p) >= MinPasswordLen
               /\ u \notin DOMAIN load_users(file)) =>
                 /\ io # "ok" =>
                       /\ ~last'.ok
                       /\ last'.msg = MsgSaveError
                       /\ u \notin DOMAIN load_users(file')
                 /\ last'.ok =>
                       /\ u \in DOMAIN load_users(file')
                       /\ load_users(file')[u] = new_record(p)]_vars

C18_Witness ==
    /\ last.op = "register_user"
    /\ ~last.ok
    /\ last.msg = MsgSaveError
    /\ last.username \notin DOMAIN load_users(file)

(***************************************************************************)
(* C19: a new AuthSystem instance over the same file starts with no failure *)
(* counts, so no username is blocked, and with the users that were in the   *)
(* file; a registered user who was blocked in the old instance logs in with *)
(* the correct password right after the restart, with no unblock_user.      *)
(***************************************************************************)
C19_RestartClearsLockout ==
    [][/\ RestartCalled =>
             /\ failed_attempts' = EmptyDict
             /\ \A n \in KnownNames : ~is_user_blocked(failed_attempts', n)
             /\ load_users(file') = load_users(file)
       /\ LoginCalled =>
             LET u == last'.username
                 p == last'.password
             IN  ( /\ last.op = "init" /\ last.username = u /\ last.pre >= 3
                   /\ Registered(u)
                   /\ Stored(u).password = hash_password(p) )
                 => /\ last'.ok
                    /\ last'.msg = MsgLoginOk]_vars

\* A user blocked in the old instance logged in right after the restart.
C19_Witness ==
    /\ prior = "restarted_blocked"
    /\ last.op = "login"
    /\ last.ok
    /\ last.username \in DOMAIN load_users(file)

(***************************************************************************)
(* C20: the file changes only in a register_user call that returns True     *)
(* (login, user_exists, get_user_count, unblock_user and every register_user *)
(* call that returns False leave it as it was), and failed_attempts changes  *)
(* only in login and unblock_user calls.                                    *)
(***************************************************************************)
C20_OnlySuccessfulRegisterWrites ==
    [][/\ file' # file => (last'.op = "register_user" /\ last'.ok)
       /\ failed_attempts' # failed_attempts =>
             last'.op \in {"login", "unblock_user"}]_vars

(***************************************************************************)
(* C21: every login call that returns failure raises the failure count of   *)
(* its username by exactly one.                                             *)
(***************************************************************************)
C21_EveryFailedLoginCounts ==
    [][LoginCalled =>
          (~last'.ok =>
              Get(failed_attempts', last'.username, 0)
                 = Count(last'.username) + 1)]_vars

(***************************************************************************)
(* C21, amended: a login call that returns failure on a username whose      *)
(* count is below max_attempts raises that count by exactly one and leaves   *)
(* every other entry alone; a login call on a username whose count has      *)
(* reached max_attempts returns failure and leaves failed_attempts as it    *)
(* was.                                                                     *)
(***************************************************************************)
C21_FailedLoginCountsUnlessBlocked ==
    [][LoginCalled =>
          LET u == last'.username IN
          ~last'.ok =>
             IF Count(u) >= max_attempts
             THEN /\ last'.msg = MsgBlocked
                  /\ failed_attempts' = failed_attempts
             ELSE failed_attempts' = Put(failed_attempts, u, Count(u) + 1)]_vars

\* A login on a blocked username left its count at 3, and another username
\* has been counted once.
C21_Witness ==
    /\ last.op = "login"
    /\ ~last.ok
    /\ last.pre = max_attempts
    /\ Count(last.username) = max_attempts
    /\ \E n \in KnownNames : n # last.username /\ Get(failed_attempts, n, 0) = 1

(***************************************************************************)
(* C22: while the file is not valid JSON, or is missing, user_exists         *)
(* returns False and get_user_count returns 0 without an error, and a valid  *)
(* register_user(u, p) succeeds and leaves a file whose mapping holds u      *)
(* alone: the users registered before the file became malformed are gone.    *)
(***************************************************************************)
C22_MalformedFileLoadsEmpty ==
    [][file.kind \in {"malformed", "absent"} =>
          /\ ExistsCalled => (~last'.ok /\ last'.msg = "")
          /\ CountCalled => (last'.ok /\ last'.count = 0)
          /\ RegisterCalled =>
                LET u == last'.username
                    p == last'.password
                IN  (len(u) >= MinUsernameLen /\ len(p) >= MinPasswordLen) =>
                       /\ last'.ok
                       /\ last'.msg = MsgRegistered
                       /\ file' = ValidFile(Put(EmptyDict, u, new_record(p)))]_vars

\* A registration made right after the file became malformed succeeded, and
\* a user registered earlier is no longer in the file.
C22_Witness ==
    /\ prior = "malformed"
    /\ last.op = "register_user"
    /\ last.ok
    /\ DOMAIN load_users(file) = {last.username}
    /\ \E n \in KnownNames \ {last.username} : successes[n] >= 1

(***************************************************************************)
(* C23: register_user loads the file and later overwrites it without a      *)
(* lock.  The write of a call that returns success leaves its own mapping   *)
(* (or, written over another process's, no JSON at all) whatever was        *)
(* written in between, so when two calls overlap a registration that        *)
(* returned success can be missing from the file; as long as no two calls   *)
(* have overlapped, every username whose registration returned success is   *)
(* in the file once no write is in progress.                                *)
(***************************************************************************)
C23_LostUpdateOnlyWhenInterleaved ==
    [][/\ \A p \in Processes :
             (pc[p] = "opened" /\ register_dump(p)) =>
                /\ returned'[p].ok
                /\ file' \in {ValidFile(call[p].users), MalformedFile}
                /\ ~raced => file' = ValidFile(call[p].users)
       /\ (~raced' /\ \A p \in Processes : pc'[p] # "opened") =>
             acked' \subseteq DOMAIN load_users(file')]_vars

\* Both processes returned success, for different usernames, and the file
\* holds the record of one of them only.
C23_Witness ==
    /\ \A p \in Processes : pc[p] = "idle" /\ returned[p].ok
    /\ returned["P1"].username # returned["P2"].username
    /\ DOMAIN load_users(file) = {returned["P2"].username}
    /\ returned["P1"].username \in acked

(***************************************************************************)
(* C24: in every reachable state of one instance each entry of              *)
(* failed_attempts has a value from 1 to max_attempts: no entry is 0, none  *)
(* exceeds max_attempts, and a username is blocked exactly when its count   *)
(* equals max_attempts.                                                     *)
(***************************************************************************)
C24_CountsWithinRange ==
    /\ \A n \in DOMAIN failed_attempts :
          failed_attempts[n] \in 1..max_attempts
    /\ \A n \in KnownNames :
          is_user_blocked(failed_attempts, n) <=> Count(n) = max_attempts

\* A login on a blocked username was refused and its count stayed at the
\* threshold, while another username has an entry below it.
C24_Witness ==
    /\ last.op = "login" /\ last.msg = MsgBlocked /\ last.pre = max_attempts
    /\ failed_attempts[last.username] = max_attempts
    /\ \E n \in DOMAIN failed_attempts : failed_attempts[n] = 2

(***************************************************************************)
(* C25: a register_user call that returns failure, whatever the reason,     *)
(* leaves the registered users and their digests as they were before it.    *)
(***************************************************************************)
C25_FailedRegisterKeepsUsers ==
    [][(last'.op = "register_user" /\ ~last'.ok) =>
          load_users(file') = load_users(file)]_vars

(***************************************************************************)
(* C26: register_user leaves failed_attempts as it was, so the count a      *)
(* username gathered from logins made before it was registered stays with   *)
(* the account: with max_attempts such logins the first login with the      *)
(* correct password right after the registration is refused as blocked, and *)
(* with k < max_attempts of them a wrong password raises the count from k,  *)
(* blocking the account when the count reaches max_attempts.                *)
(***************************************************************************)
C26_CountsCarryOverRegistration ==
    [][/\ last'.op = "register_user" => failed_attempts' = failed_attempts
       /\ LoginCalled =>
             LET u == last'.username
                 p == last'.password
                 k == Count(u)
             IN  /\ ( /\ last.op = "register_user" /\ last.ok
                      /\ last.username = u /\ last.password = p
                      /\ k >= max_attempts )
                    => (~last'.ok /\ last'.msg = MsgBlocked)
                 /\ ( /\ WrongPassword(file, u, p)
                      /\ k < max_attempts )
                    => /\ Get(failed_attempts', u, 0) = k + 1
                       /\ last'.msg = IF k + 1 = max_attempts THEN MsgBlocked
                                      ELSE MsgWrong(max_attempts - (k + 1))]_vars

\* A username was registered with three failed logins behind it, and the
\* login with the password it was registered with was refused.
C26_Witness ==
    /\ prior = "registered"
    /\ last.op = "login"
    /\ last.msg = MsgBlocked
    /\ last.pre = max_attempts
    /\ last.username \in DOMAIN load_users(file)
    /\ Stored(last.username).password = hash_password(last.password)

====
